---- MODULE Spec2Model ----
(***************************************************************************)
(* Model of odb::sqlite::object_statements<T> (simple-object-statements):  *)
(* the reentrancy lock of object_statements_base, the scoped auto_lock,    *)
(* the delayed-load queue (delay_load / load_delayed / clear_delayed) and  *)
(* the swap_guard that load_delayed_() uses while it drains the queue.     *)
(*                                                                         *)
(* One cache instance, one thread.  The C++ call stack is modelled by      *)
(* `stack`: the live scoped objects (auto_lock instances and the           *)
(* swap_guard of every load_delayed_() in progress), innermost last.       *)
(* assert() is modelled with assertions enabled: a failed assert aborts    *)
(* the program (fault = "assert", no further step).                        *)
(***************************************************************************)
EXTENDS Naturals, Sequences, FiniteSets

VARIABLES locked_,   \* object_statements_base::locked_
          delayed_,  \* object_statements::delayed_ (vector<delayed_load>)
          stack,     \* live scoped objects: auto_lock / swap_guard frames
          invoked,   \* history: loader invocations, in order
          calls,     \* history: number of delay_load calls made so far
          released,  \* history: an auto_lock::unlock() released the cache
                     \*          while delayed loads were still pending
          exc,       \* a C++ exception is propagating (stack unwinding)
          fault      \* "none" or "assert" (assert() failed: abort)

VARIABLES persist_,    \* object_statements::persist_ (0: not constructed)
          find_,       \* object_statements::find_
          update_,     \* object_statements::update_
          erase_,      \* object_statements::erase_
          od_erase_,   \* optimistic_data::erase_ (od_.erase_)
          constructed, \* history: statements constructed, per kind
          accessed,    \* history: accessor calls, per kind
          returned,    \* the kind and the statement the last accessor returned
          p_,          \* container_statement_cache_ptr::p_ (0: null)
          deleter_,    \* container_statement_cache_ptr::deleter_
          allocated,   \* history: sub-caches allocated (new T)
          deleted,     \* history: sub-caches deleted (delete p_)
          alive,       \* the owning object_statements is not yet destroyed
          select_image_version_,     \* object_statements::select_image_version_
          insert_image_version_,     \* object_statements::insert_image_version_
          update_image_version_,     \* object_statements::update_image_version_
          update_id_image_version_,  \* object_statements::update_id_image_version_
          id_image_version_,         \* object_statements::id_image_version_
          od_id_image_version_,      \* optimistic_data::id_image_version_
          traits,      \* object_traits: the column counts of the mapped type
          columns      \* the *_column_count constants of the instantiation

lockvars == <<locked_, delayed_, stack, invoked, calls, released, exc, fault>>

stmtvars == <<persist_, find_, update_, erase_, od_erase_,
              constructed, accessed, returned>>

ptrvars == <<p_, deleter_, allocated, deleted, alive>>

versionvars == <<select_image_version_, insert_image_version_,
                 update_image_version_, update_id_image_version_,
                 id_image_version_, od_id_image_version_>>

columnvars == <<traits, columns>>

cachevars == <<stmtvars, ptrvars, versionvars, columnvars>>

vars == <<lockvars, cachevars>>

-----------------------------------------------------------------------------
(* Bounds *)

MaxCalls == 3   \* delay_load calls per behaviour
MaxDepth == 3   \* live scoped objects (nesting depth)
MaxAccess == 2  \* calls of each statement accessor, and of get ()
MaxVersion == 2 \* largest value passed to a version setter
MaxColumns == 10 \* columns of a mapped type
MaxPart == 2    \* inverse, id and read-only columns of a mapped type

(* Inputs of delay_load *)

NullLoader == "null"                  \* loader_function l = 0
Ids        == {"id1", "id2"}
Objs       == {"obj1", "obj2"}
Positions  == {"pos1", "pos2"}
Loaders    == {NullLoader, "custom"}

\* The argument lists callers pass: two loads that differ in every argument.
Requests ==
  { <<"id1", "obj1", "pos1", NullLoader>>, <<"id2", "obj2", "pos2", "custom">> }

-----------------------------------------------------------------------------
(* object_statements_base: lock / unlock / locked.  Each operator takes    *)
(* the flag and returns the flag after the call and whether the assert     *)
(* failed (in which case nothing was assigned).                            *)

\* Mutants of lock: the assert of unlock () pasted in; the flag not set.
lock_wrong_assert(l) ==
  IF ~l THEN [failed |-> TRUE,  locked_ |-> l]
        ELSE [failed |-> FALSE, locked_ |-> TRUE]

lock_noset(l) == [failed |-> l, locked_ |-> l]

lock(l) ==
  IF l THEN [failed |-> TRUE,  locked_ |-> l]
       ELSE [failed |-> FALSE, locked_ |-> TRUE]

\* Mutant of unlock: the flag is not reset.
unlock_noreset(l) == [failed |-> ~l, locked_ |-> l]

\* Mutant of unlock: the assert of lock () pasted in.
unlock_wrong_assert(l) ==
  IF l THEN [failed |-> TRUE,  locked_ |-> l]
       ELSE [failed |-> FALSE, locked_ |-> FALSE]

unlock(l) ==
  IF ~l THEN [failed |-> TRUE,  locked_ |-> l]
        ELSE [failed |-> FALSE, locked_ |-> FALSE]

\* Mutant of locked: the flag negated.
locked_negated(l) == ~l

\* Mutant of locked: always true.
locked_always(l) == TRUE

locked(l) == l

-----------------------------------------------------------------------------
(* Delayed loads.  `call` is a history field: the ordinal of the           *)
(* delay_load call that created the entry (the enqueue order).             *)

\* Mutant of delayed_load: the loader is not stored.
delayed_load_noloader(i, o, p, l, n) ==
  [id |-> i, obj |-> o, pos |-> p, loader |-> NullLoader, call |-> n]

\* Mutant of delayed_load: the id is stored as the position.
delayed_load_idpos(i, o, p, l, n) ==
  [id |-> i, obj |-> o, pos |-> i, loader |-> l, call |-> n]

delayed_load(i, o, p, l, n) ==
  [id |-> i, obj |-> o, pos |-> p, loader |-> l, call |-> n]

\* Mutant of delay_load: the entry is inserted at the front.
delay_load_front(d, i, o, p, l, n) == <<delayed_load(i, o, p, l, n)>> \o d

delay_load(d, i, o, p, l, n) == Append(d, delayed_load(i, o, p, l, n))

\* clear_delayed_ (): removes the entries; no loader is called.
clear_delayed_(d) == << >>

\* Mutants of clear_delayed: only the last entry is removed; nothing is.
clear_delayed_pop(d) == IF d # << >> THEN SubSeq(d, 1, Len(d) - 1) ELSE d

clear_delayed_keep(d) == d

clear_delayed(d) == IF d # << >> THEN clear_delayed_(d) ELSE d

\* Mutant of the swap_guard constructor: the lists are not exchanged.
swap_guard_ctor_noswap(dl, d) == [dl |-> dl, delayed_ |-> d]

\* Mutant of the swap_guard constructor: the cache's list is copied, not
\* exchanged.
swap_guard_ctor_copy(dl, d) == [dl |-> d, delayed_ |-> d]

\* swap_guard (os, dl): dl_.swap (os_.delayed_)
swap_guard_ctor(dl, d) == [dl |-> d, delayed_ |-> dl]

\* Mutant of the swap_guard destructor: the lists are not exchanged back.
swap_guard_dtor_noswap(dl, d) == [dl |-> dl, delayed_ |-> clear_delayed(d)]

\* ~swap_guard (): os_.clear_delayed (); dl_.swap (os_.delayed_)
swap_guard_dtor(dl, d) == [dl |-> clear_delayed(d), delayed_ |-> dl]

\* The loader load_delayed_ () calls for an entry.
loader_of(e) == IF e.loader = NullLoader THEN "default" ELSE e.loader

-----------------------------------------------------------------------------
(* auto_lock: constructor, destructor, unlock ().  `held` is               *)
(* auto_lock::locked_.                                                     *)

auto_lock_ctor(l) ==
  IF ~locked(l)
    THEN [failed |-> lock(l).failed, locked_ |-> lock(l).locked_, held |-> TRUE]
    ELSE [failed |-> FALSE, locked_ |-> l, held |-> FALSE]

auto_lock_dtor(held, l, d) ==
  IF held
    THEN IF unlock(l).failed
           THEN [failed |-> TRUE, locked_ |-> l, delayed_ |-> d]
           ELSE [failed |-> FALSE, locked_ |-> unlock(l).locked_,
                 delayed_ |-> clear_delayed(d)]
    ELSE [failed |-> FALSE, locked_ |-> l, delayed_ |-> d]

auto_lock_unlock(held, l) ==
  IF ~held \/ unlock(l).failed
    THEN [failed |-> TRUE, locked_ |-> l, held |-> held]
    ELSE [failed |-> FALSE, locked_ |-> unlock(l).locked_, held |-> FALSE]

\* auto_unlock: unlocks on construction, locks again on destruction.
auto_unlock_ctor(l) == unlock(l)

auto_unlock_dtor(l) == lock(l)

-----------------------------------------------------------------------------
(* Scoped objects on the call stack *)

AutoUnlock ==
  [kind |-> "auto_unlock", held |-> FALSE,
   dls |-> << >>, start |-> << >>, done |-> << >>, active |-> FALSE]

AutoLock(h) ==
  [kind |-> "auto_lock", held |-> h,
   dls |-> << >>, start |-> << >>, done |-> << >>, active |-> FALSE]

\* The frame of one load_delayed_ (): its local list dls and its guard.
\* start (entries pending at the call) and done (entries whose loader this
\* frame has called) are history fields; active: a loader is running.
Guard(dl, st, dn, a) ==
  [kind |-> "swap_guard", held |-> FALSE,
   dls |-> dl, start |-> st, done |-> dn, active |-> a]

Top == stack[Len(stack)]
Pop == SubSeq(stack, 1, Len(stack) - 1)
SetTop(f) == [stack EXCEPT ![Len(stack)] = f]

Running == fault = "none" /\ ~exc

\* Application code (or a loader) is executing and may call the cache.
UserCode ==
  /\ Running
  /\ \/ stack = << >>
     \/ stack # << >> /\ Top.kind = "auto_lock"
     \/ stack # << >> /\ Top.kind = "auto_unlock"
     \/ stack # << >> /\ Top.kind = "swap_guard" /\ Top.active

Failure(b) == IF b THEN "assert" ELSE "none"

-----------------------------------------------------------------------------
Kinds == {"persist", "find", "update", "erase", "optimistic_erase"}

NoStatement == [kind |-> "none", stmt |-> 0]

\* deleter_ is not initialised by the constructor of the pointer.
Indeterminate == "indeterminate"

\* The column counts of the mapped type used where they do not matter.
ExampleTraits ==
  [column_count |-> 10, inverse_column_count |-> 2,
   managed_optimistic_column_count |-> 1,
   id_column_count |-> 1, readonly_column_count |-> 1]

NoColumns == [instantiated |-> FALSE, select_column_count |-> 0,
              insert_column_count |-> 0, update_column_count |-> 0]

\* The lock and the delayed-load queue of a new cache.
InitLock ==
  /\ locked_ = FALSE
  /\ delayed_ = << >>
  /\ stack = << >>
  /\ invoked = << >>
  /\ calls = 0
  /\ released = FALSE
  /\ exc = FALSE
  /\ fault = "none"

\* The statements, the container cache pointer and the versions of a new
\* cache.
InitCache ==
  /\ persist_ = 0
  /\ find_ = 0
  /\ update_ = 0
  /\ erase_ = 0
  /\ od_erase_ = 0
  /\ constructed = [k \in Kinds |-> 0]
  /\ accessed = [k \in Kinds \cup {"container"} |-> 0]
  /\ returned = NoStatement
  /\ p_ = 0
  /\ deleter_ = Indeterminate
  /\ allocated = 0
  /\ deleted = 0
  /\ alive = TRUE
  /\ select_image_version_ = 0
  /\ insert_image_version_ = 0
  /\ update_image_version_ = 0
  /\ update_id_image_version_ = 0
  /\ id_image_version_ = 0
  /\ od_id_image_version_ = 0

Init ==
  /\ InitLock
  /\ InitCache
  /\ traits = ExampleTraits
  /\ columns = NoColumns

-----------------------------------------------------------------------------
(* Direct calls of the lock primitive *)

Lock ==
  /\ UserCode
  /\ locked_' = lock(locked_).locked_
  /\ fault' = Failure(lock(locked_).failed)
  /\ UNCHANGED <<delayed_, stack, invoked, calls, released, exc>>
  /\ UNCHANGED cachevars

Unlock ==
  /\ UserCode
  /\ locked_' = unlock(locked_).locked_
  /\ fault' = Failure(unlock(locked_).failed)
  /\ UNCHANGED <<delayed_, stack, invoked, calls, released, exc>>
  /\ UNCHANGED cachevars

-----------------------------------------------------------------------------
(* auto_lock *)

AutoLockCtor ==
  /\ UserCode
  /\ Len(stack) < MaxDepth
  /\ LET r == auto_lock_ctor(locked_) IN
       /\ locked_' = r.locked_
       /\ fault' = Failure(r.failed)
       /\ stack' = IF r.failed THEN stack ELSE Append(stack, AutoLock(r.held))
  /\ UNCHANGED <<delayed_, invoked, calls, released, exc>>
  /\ UNCHANGED cachevars

\* l.unlock () on the live auto_lock at stack position i.  The auto_lock is
\* a local of the calling code: it is not reachable from a loader that a
\* load_delayed_ () started after it is running.
AutoLockUnlock(i) ==
  /\ UserCode
  /\ \A j \in i..Len(stack) : stack[j].kind = "auto_lock"
  /\ LET r == auto_lock_unlock(stack[i].held, locked_) IN
       /\ locked_' = r.locked_
       /\ fault' = Failure(r.failed)
       /\ stack' = [stack EXCEPT ![i] = AutoLock(r.held)]
       /\ released' = (released \/ (~r.failed /\ delayed_ # << >>))
  /\ UNCHANGED <<delayed_, invoked, calls, exc>>
  /\ UNCHANGED cachevars

AutoLockRelease == \E i \in DOMAIN stack : AutoLockUnlock(i)

\* The innermost auto_lock goes out of scope (normal exit of its block).
AutoLockDtor ==
  /\ UserCode
  /\ stack # << >>
  /\ Top.kind = "auto_lock"
  /\ LET r == auto_lock_dtor(Top.held, locked_, delayed_) IN
       /\ locked_' = r.locked_
       /\ delayed_' = r.delayed_
       /\ fault' = Failure(r.failed)
       /\ stack' = IF r.failed THEN stack ELSE Pop
  /\ UNCHANGED <<invoked, calls, released, exc>>
  /\ UNCHANGED cachevars

-----------------------------------------------------------------------------
(* The delayed-load queue *)

DelayLoadCall(i, o, p, l) ==
  /\ UserCode
  /\ calls < MaxCalls
  /\ delayed_' = delay_load(delayed_, i, o, p, l, calls + 1)
  /\ calls' = calls + 1
  /\ UNCHANGED <<locked_, stack, invoked, released, exc, fault>>
  /\ UNCHANGED cachevars

\* delay_load by a caller that found the cache locked.
DelayLoad ==
  /\ locked_
  /\ \E r \in Requests : DelayLoadCall(r[1], r[2], r[3], r[4])

\* delay_load on an unlocked cache.
DelayLoadUnlocked ==
  /\ ~locked_
  /\ \E r \in Requests : DelayLoadCall(r[1], r[2], r[3], r[4])

ClearDelayed ==
  /\ UserCode
  /\ delayed_' = clear_delayed(delayed_)
  /\ UNCHANGED <<locked_, stack, invoked, calls, released, exc, fault>>
  /\ UNCHANGED cachevars

\* load_delayed (): the assert, the emptiness test and, when the list is
\* not empty, the entry of load_delayed_ (): delayed_loads dls;
\* swap_guard sg (*this, dls).
LoadDelayed ==
  /\ UserCode
  /\ IF ~locked(locked_)
       THEN /\ fault' = "assert"
            /\ UNCHANGED <<delayed_, stack>>
       ELSE IF delayed_ # << >>
         THEN /\ Len(stack) < MaxDepth
              /\ LET g == swap_guard_ctor(<< >>, delayed_) IN
                   /\ delayed_' = g.delayed_
                   /\ stack' = Append(stack, Guard(g.dl, delayed_, << >>, FALSE))
              /\ UNCHANGED fault
         ELSE UNCHANGED <<delayed_, stack, fault>>
  /\ UNCHANGED <<locked_, invoked, calls, released, exc>>
  /\ UNCHANGED cachevars

\* load_delayed_ (): take the next entry of dls and call its loader.
ProcessEntry ==
  /\ Running
  /\ stack # << >>
  /\ Top.kind = "swap_guard"
  /\ ~Top.active
  /\ Top.dls # << >>
  /\ LET e == Head(Top.dls) IN
       /\ invoked' = Append(invoked, [entry |-> e, fn |-> loader_of(e)])
       /\ stack' = SetTop(Guard(Tail(Top.dls), Top.start,
                                Append(Top.done, e), TRUE))
  /\ UNCHANGED <<locked_, delayed_, calls, released, exc, fault>>
  /\ UNCHANGED cachevars

\* The running loader returns to load_delayed_ ().
LoaderReturn ==
  /\ Running
  /\ stack # << >>
  /\ Top.kind = "swap_guard"
  /\ Top.active
  /\ stack' = SetTop(Guard(Top.dls, Top.start, Top.done, FALSE))
  /\ UNCHANGED <<locked_, delayed_, invoked, calls, released, exc, fault>>
  /\ UNCHANGED cachevars

\* load_delayed_ () returns normally: dls is empty, ~swap_guard () runs.
GuardExit ==
  /\ Running
  /\ stack # << >>
  /\ Top.kind = "swap_guard"
  /\ ~Top.active
  /\ Top.dls = << >>
  /\ delayed_' = swap_guard_dtor(Top.dls, delayed_).delayed_
  /\ stack' = Pop
  /\ UNCHANGED <<locked_, invoked, calls, released, exc, fault>>
  /\ UNCHANGED cachevars

-----------------------------------------------------------------------------
(* Exceptions: a loader or a statement throws; the stack unwinds through   *)
(* the scoped objects, running their destructors, until the exception is   *)
(* caught (by a handler in an enclosing scope or at the top level).        *)

Throw ==
  /\ UserCode
  /\ stack # << >>
  /\ exc' = TRUE
  /\ UNCHANGED <<locked_, delayed_, stack, invoked, calls, released, fault>>
  /\ UNCHANGED cachevars

Unwind ==
  /\ fault = "none"
  /\ exc
  /\ stack # << >>
  /\ IF Top.kind = "auto_lock"
       THEN LET r == auto_lock_dtor(Top.held, locked_, delayed_) IN
              /\ locked_' = r.locked_
              /\ delayed_' = r.delayed_
              /\ fault' = Failure(r.failed)
              /\ stack' = IF r.failed THEN stack ELSE Pop
              /\ exc' = IF r.failed THEN exc ELSE (Len(stack) > 1)
       ELSE IF Top.kind = "auto_unlock"
         THEN LET r == auto_unlock_dtor(locked_) IN
                /\ locked_' = r.locked_
                /\ fault' = Failure(r.failed)
                /\ stack' = IF r.failed THEN stack ELSE Pop
                /\ exc' = IF r.failed THEN exc ELSE (Len(stack) > 1)
                /\ UNCHANGED delayed_
         ELSE /\ delayed_' = swap_guard_dtor(Top.dls, delayed_).delayed_
              /\ stack' = Pop
              /\ exc' = (Len(stack) > 1)
              /\ UNCHANGED <<locked_, fault>>
  /\ UNCHANGED <<invoked, calls, released>>
  /\ UNCHANGED cachevars

Catch ==
  /\ fault = "none"
  /\ exc
  /\ stack # << >>
  /\ exc' = FALSE
  /\ UNCHANGED <<locked_, delayed_, stack, invoked, calls, released, fault>>
  /\ UNCHANGED cachevars

-----------------------------------------------------------------------------
(* Prepared statements.  Each accessor takes its pointer and returns the   *)
(* pointer after the call, the statement returned and whether a statement  *)
(* was constructed.  A statement is named by its ordinal among the         *)
(* statements of its kind constructed by this cache (1 for the first).     *)

\* Mutant of persist_statement: the test for a null pointer is missing.
persist_statement_always(ptr, n) == [ptr |-> n + 1, ret |-> n + 1, new |-> TRUE]

persist_statement(ptr, n) ==
  IF ptr = 0 THEN [ptr |-> n + 1, ret |-> n + 1, new |-> TRUE]
             ELSE [ptr |-> ptr, ret |-> ptr, new |-> FALSE]

find_statement(ptr, n) ==
  IF ptr = 0 THEN [ptr |-> n + 1, ret |-> n + 1, new |-> TRUE]
             ELSE [ptr |-> ptr, ret |-> ptr, new |-> FALSE]

update_statement(ptr, n) ==
  IF ptr = 0 THEN [ptr |-> n + 1, ret |-> n + 1, new |-> TRUE]
             ELSE [ptr |-> ptr, ret |-> ptr, new |-> FALSE]

erase_statement(ptr, n) ==
  IF ptr = 0 THEN [ptr |-> n + 1, ret |-> n + 1, new |-> TRUE]
             ELSE [ptr |-> ptr, ret |-> ptr, new |-> FALSE]

optimistic_erase_statement(ptr, n) ==
  IF ptr = 0 THEN [ptr |-> n + 1, ret |-> n + 1, new |-> TRUE]
             ELSE [ptr |-> ptr, ret |-> ptr, new |-> FALSE]

\* The bookkeeping common to the five accessor calls.
Accessed(k, r) ==
  /\ alive
  /\ accessed[k] < MaxAccess
  /\ accessed' = [accessed EXCEPT ![k] = @ + 1]
  /\ constructed' = [constructed EXCEPT ![k] = IF r.new THEN @ + 1 ELSE @]
  /\ returned' = [kind |-> k, stmt |-> r.ret]
  /\ UNCHANGED <<lockvars, ptrvars, versionvars, columnvars>>

PersistStatement ==
  /\ Accessed("persist", persist_statement(persist_, constructed["persist"]))
  /\ persist_' = persist_statement(persist_, constructed["persist"]).ptr
  /\ UNCHANGED <<find_, update_, erase_, od_erase_>>

FindStatement ==
  /\ Accessed("find", find_statement(find_, constructed["find"]))
  /\ find_' = find_statement(find_, constructed["find"]).ptr
  /\ UNCHANGED <<persist_, update_, erase_, od_erase_>>

UpdateStatement ==
  /\ Accessed("update", update_statement(update_, constructed["update"]))
  /\ update_' = update_statement(update_, constructed["update"]).ptr
  /\ UNCHANGED <<persist_, find_, erase_, od_erase_>>

EraseStatement ==
  /\ Accessed("erase", erase_statement(erase_, constructed["erase"]))
  /\ erase_' = erase_statement(erase_, constructed["erase"]).ptr
  /\ UNCHANGED <<persist_, find_, update_, od_erase_>>

OptimisticEraseStatement ==
  /\ Accessed("optimistic_erase",
              optimistic_erase_statement(od_erase_,
                                         constructed["optimistic_erase"]))
  /\ od_erase_' = optimistic_erase_statement(od_erase_,
                                   constructed["optimistic_erase"]).ptr
  /\ UNCHANGED <<persist_, find_, update_, erase_>>

-----------------------------------------------------------------------------
(* container_statement_cache_ptr.  The operators take and return the state *)
(* of the pointer: p_ (0, or the ordinal of the sub-cache allocated),      *)
(* deleter_, and the numbers of sub-caches allocated and deleted so far.   *)

CachePtr == [p_ |-> p_, deleter_ |-> deleter_,
             allocated |-> allocated, deleted |-> deleted]

\* allocate (c, id): allocator and deleter in one.
allocate(c) ==
  IF c.p_ = 0
    THEN [c EXCEPT !.p_ = c.allocated + 1, !.deleter_ = "allocate",
                   !.allocated = c.allocated + 1]
    ELSE [c EXCEPT !.deleted = c.deleted + 1]

\* Mutant of get: allocate () is called without the test for a null p_.
get_always(c) == allocate(c)

\* get (c, id): the state after the call; the sub-cache returned is its p_.
get(c) == IF c.p_ = 0 THEN allocate(c) ELSE c

\* ~container_statement_cache_ptr (): the states the call through deleter_
\* can leave.  A call through a deleter_ that was never assigned is
\* undefined: it may delete nothing, once or more than once.
container_statement_cache_ptr_dtor(c) ==
  IF c.p_ # 0
    THEN IF c.deleter_ = "allocate"
           THEN {allocate(c)}
           ELSE {[c EXCEPT !.deleted = c.deleted + n] : n \in 0..2}
    ELSE {c}

SetCachePtr(c) ==
  /\ p_' = c.p_
  /\ deleter_' = c.deleter_
  /\ allocated' = c.allocated
  /\ deleted' = c.deleted

\* container_statment_cache (): container_statement_cache_.get (conn_,
\* id_image_binding_).
ContainerStatementCache ==
  /\ alive
  /\ accessed["container"] < MaxAccess
  /\ accessed' = [accessed EXCEPT !["container"] = @ + 1]
  /\ SetCachePtr(get(CachePtr))
  /\ returned' = [kind |-> "container", stmt |-> get(CachePtr).p_]
  /\ UNCHANGED <<persist_, find_, update_, erase_, od_erase_, constructed,
                 alive>>
  /\ UNCHANGED <<lockvars, versionvars, columnvars>>

\* The owning object_statements is destroyed: its members are destroyed,
\* container_statement_cache_ among them.
DestroyCache ==
  /\ alive
  /\ alive' = FALSE
  /\ \E c \in container_statement_cache_ptr_dtor(CachePtr) : SetCachePtr(c)
  /\ UNCHANGED <<stmtvars, lockvars, versionvars, columnvars>>

\* The statement accessors, the container cache and the destruction of one
\* cache instance.
NextStatements ==
  \/ PersistStatement
  \/ FindStatement
  \/ UpdateStatement
  \/ EraseStatement
  \/ OptimisticEraseStatement
  \/ ContainerStatementCache
  \/ DestroyCache

SpecStatements == Init /\ [][NextStatements]_vars

-----------------------------------------------------------------------------
(* Image versions.  The setters take the six version members and the new   *)
(* value and return the members after the call; the getters return one.    *)

ImageVersions ==
  [select_image_version_ |-> select_image_version_,
   insert_image_version_ |-> insert_image_version_,
   update_image_version_ |-> update_image_version_,
   update_id_image_version_ |-> update_id_image_version_,
   id_image_version_ |-> id_image_version_,
   od_id_image_version_ |-> od_id_image_version_]

insert_image_version(m) == m.insert_image_version_
update_image_version(m) == m.update_image_version_
update_id_image_version(m) == m.update_id_image_version_
select_image_version(m) == m.select_image_version_
id_image_version(m) == m.id_image_version_
optimistic_id_image_version(m) == m.od_id_image_version_

set_insert_image_version(m, v) == [m EXCEPT !.insert_image_version_ = v]

set_update_image_version(m, v) == [m EXCEPT !.update_image_version_ = v]

\* Mutant of the update_id_image_version setter: it assigns the member of
\* update_image_version.
set_update_id_image_version_wrong(m, v) ==
  [m EXCEPT !.update_image_version_ = v]

set_update_id_image_version(m, v) ==
  [m EXCEPT !.update_id_image_version_ = v]

set_select_image_version(m, v) == [m EXCEPT !.select_image_version_ = v]

set_id_image_version(m, v) == [m EXCEPT !.id_image_version_ = v]

set_optimistic_id_image_version(m, v) ==
  [m EXCEPT !.od_id_image_version_ = v]

SetImageVersions(m) ==
  /\ alive
  /\ select_image_version_' = m.select_image_version_
  /\ insert_image_version_' = m.insert_image_version_
  /\ update_image_version_' = m.update_image_version_
  /\ update_id_image_version_' = m.update_id_image_version_
  /\ id_image_version_' = m.id_image_version_
  /\ od_id_image_version_' = m.od_id_image_version_
  /\ UNCHANGED <<lockvars, stmtvars, ptrvars, columnvars>>

VersionValues == 0..MaxVersion

InsertImageVersion(v) == SetImageVersions(set_insert_image_version(ImageVersions, v))
UpdateImageVersion(v) == SetImageVersions(set_update_image_version(ImageVersions, v))
UpdateIdImageVersion(v) == SetImageVersions(set_update_id_image_version(ImageVersions, v))
SelectImageVersion(v) == SetImageVersions(set_select_image_version(ImageVersions, v))
IdImageVersion(v) == SetImageVersions(set_id_image_version(ImageVersions, v))
OptimisticIdImageVersion(v) == SetImageVersions(set_optimistic_id_image_version(ImageVersions, v))

SetInsertImageVersion == \E v \in VersionValues : InsertImageVersion(v)
SetUpdateImageVersion == \E v \in VersionValues : UpdateImageVersion(v)
SetUpdateIdImageVersion == \E v \in VersionValues : UpdateIdImageVersion(v)
SetSelectImageVersion == \E v \in VersionValues : SelectImageVersion(v)
SetIdImageVersion == \E v \in VersionValues : IdImageVersion(v)
SetOptimisticIdImageVersion == \E v \in VersionValues : OptimisticIdImageVersion(v)

NextVersions ==
  \/ SetInsertImageVersion
  \/ SetUpdateImageVersion
  \/ SetUpdateIdImageVersion
  \/ SetSelectImageVersion
  \/ SetIdImageVersion
  \/ SetOptimisticIdImageVersion

SpecVersions == Init /\ [][NextVersions]_vars

-----------------------------------------------------------------------------
(* Column counts: the static constants of object_statements<T>, computed   *)
(* from the counts of object_traits (std::size_t arithmetic; for the       *)
(* counts of a mapped type no subtraction goes below zero).                *)

select_column_count(t) == t.column_count

\* Mutant of insert_column_count: the managed optimistic column is not
\* subtracted.
insert_column_count_managed(t) == t.column_count - t.inverse_column_count

insert_column_count(t) ==
  t.column_count - t.inverse_column_count -
  t.managed_optimistic_column_count

update_column_count(t) ==
  insert_column_count(t) - t.id_column_count - t.readonly_column_count

\* The column counts a mapped type can have: the inverse, managed
\* optimistic, id and read-only columns are disjoint subsets of its columns.
MappedTypes ==
  { t \in [column_count : 0..MaxColumns,
           inverse_column_count : 0..MaxPart,
           managed_optimistic_column_count : 0..1,
           id_column_count : 1..MaxPart,
           readonly_column_count : 0..MaxPart] :
      t.inverse_column_count + t.managed_optimistic_column_count +
      t.id_column_count + t.readonly_column_count <= t.column_count }

InitColumns ==
  /\ InitLock
  /\ InitCache
  /\ traits \in MappedTypes
  /\ columns = NoColumns

\* object_statements<T> is instantiated for the mapped type.
Instantiate ==
  /\ ~columns.instantiated
  /\ columns' = [instantiated |-> TRUE,
                 select_column_count |-> select_column_count(traits),
                 insert_column_count |-> insert_column_count(traits),
                 update_column_count |-> update_column_count(traits)]
  /\ UNCHANGED <<traits, lockvars, stmtvars, ptrvars, versionvars>>

NextColumns == Instantiate

SpecColumns == InitColumns /\ [][NextColumns]_vars

-----------------------------------------------------------------------------
\* Operations that take the lock only through auto_lock and queue delayed
\* loads only while the cache is locked.
NextOp ==
  \/ AutoLockCtor
  \/ AutoLockRelease
  \/ AutoLockDtor
  \/ DelayLoad
  \/ ClearDelayed
  \/ LoadDelayed
  \/ ProcessEntry
  \/ LoaderReturn
  \/ GuardExit
  \/ Throw
  \/ Unwind
  \/ Catch

\* Any caller: also direct lock ()/unlock () and delay_load while unlocked.
Next ==
  \/ NextOp
  \/ Lock
  \/ Unlock
  \/ DelayLoadUnlocked

Spec == Init /\ [][Next]_vars

SpecOp == Init /\ [][NextOp]_vars

-----------------------------------------------------------------------------
(* auto_unlock *)

AutoUnlockCtor ==
  /\ UserCode
  /\ Len(stack) < MaxDepth
  /\ LET r == auto_unlock_ctor(locked_) IN
       /\ locked_' = r.locked_
       /\ fault' = Failure(r.failed)
       /\ stack' = IF r.failed THEN stack ELSE Append(stack, AutoUnlock)
  /\ UNCHANGED <<delayed_, invoked, calls, released, exc>>
  /\ UNCHANGED cachevars

\* The innermost auto_unlock goes out of scope (normal exit of its block).
AutoUnlockDtor ==
  /\ UserCode
  /\ stack # << >>
  /\ Top.kind = "auto_unlock"
  /\ LET r == auto_unlock_dtor(locked_) IN
       /\ locked_' = r.locked_
       /\ fault' = Failure(r.failed)
       /\ stack' = IF r.failed THEN stack ELSE Pop
  /\ UNCHANGED <<delayed_, invoked, calls, released, exc>>
  /\ UNCHANGED cachevars

\* The lock used directly and through the two scoped helpers.
NextUnlock ==
  \/ Lock
  \/ Unlock
  \/ AutoLockCtor
  \/ AutoLockRelease
  \/ AutoLockDtor
  \/ AutoUnlockCtor
  \/ AutoUnlockDtor
  \/ Throw
  \/ Unwind
  \/ Catch

SpecUnlock == Init /\ [][NextUnlock]_vars

-----------------------------------------------------------------------------
(* Properties *)

Range(s) == {s[k] : k \in DOMAIN s}
Count(s, e) == Cardinality({k \in DOMAIN s : s[k] = e})

AutoLocks == {i \in DOMAIN stack : stack[i].kind = "auto_lock"}
Holders   == {i \in AutoLocks : stack[i].held}
Frames    == {i \in DOMAIN stack : stack[i].kind = "swap_guard"}

\* Control is at the top level: no operation in progress.
AtTopLevel == fault = "none" /\ ~exc /\ stack = << >>

\* A step that destroys the innermost auto_lock (scope exit or unwinding).
AutoLockDestroyed ==
  /\ stack # << >>
  /\ Top.kind = "auto_lock"
  /\ AutoLockDtor \/ Unwind

\* C1: lock () on a locked cache and unlock () on an unlocked cache fail the
\* assert and assign nothing; otherwise lock () sets the flag, unlock ()
\* resets it; locked () returns the flag.
C1_LockPairing ==
  [][ /\ (Lock /\ locked_    => fault' = "assert" /\ locked_' = locked_)
      /\ (Lock /\ ~locked_   => fault' = "none" /\ locked_' = TRUE)
      /\ (Unlock /\ ~locked_ => fault' = "assert" /\ locked_' = locked_)
      /\ (Unlock /\ locked_  => fault' = "none" /\ locked_' = FALSE)
      /\ locked(locked_) = locked_
      /\ locked(locked_') = locked_' ]_vars

\* Reached by lock () on a locked cache, outside any scoped object.
C1_Witness == fault = "assert" /\ locked_ /\ stack = << >>

\* C2: with the lock taken only through auto_lock, at most one live
\* auto_lock holds the lock, and when one does the cache is locked.
C2_MutualExclusion ==
  /\ Cardinality(Holders) <= 1
  /\ Holders # {} => locked(locked_)

\* Two nested auto_locks, the outer one holding, the inner one not.
C2_Witness ==
  /\ Len(stack) >= 2
  /\ 1 \in Holders
  /\ 2 \in AutoLocks \ Holders
  /\ fault = "none"

\* C3: an auto_lock constructed on a locked cache does not fail and does
\* not hold the lock; the destruction of an auto_lock that does not hold
\* the lock changes neither the lock flag nor the pending queue.
C3_AutoLockOnLocked ==
  [][ /\ (AutoLockCtor /\ locked_ =>
            /\ fault' = "none"
            /\ locked_' = TRUE
            /\ stack' = Append(stack, AutoLock(FALSE)))
      /\ (AutoLockDestroyed /\ ~Top.held =>
            /\ fault' = "none"
            /\ locked_' = locked_
            /\ delayed_' = delayed_
            /\ invoked' = invoked
            /\ stack' = Pop) ]_vars

\* A live auto_lock that does not hold the lock, on a locked cache with
\* pending delayed loads.
C3_Witness ==
  /\ stack # << >>
  /\ Top.kind = "auto_lock"
  /\ ~Top.held
  /\ locked_
  /\ delayed_ # << >>
  /\ fault = "none"

\* C4: an auto_lock constructed on a free cache locks it and holds the
\* lock; destroyed while it holds the lock, it unlocks the cache and
\* removes every pending entry without calling a loader.
C4_AutoLockOnFree ==
  [][ /\ (AutoLockCtor /\ ~locked_ =>
            /\ fault' = "none"
            /\ locked_' = TRUE
            /\ stack' = Append(stack, AutoLock(TRUE)))
      /\ (AutoLockDestroyed /\ Top.held /\ locked_ =>
            /\ fault' = "none"
            /\ locked_' = FALSE
            /\ delayed_' = << >>
            /\ invoked' = invoked
            /\ stack' = Pop) ]_vars

\* The innermost auto_lock holds the lock and two delayed loads are pending.
C4_Witness ==
  /\ stack # << >>
  /\ Top.kind = "auto_lock"
  /\ Top.held
  /\ locked_
  /\ Len(delayed_) >= 2
  /\ fault = "none"

\* C5: delay_load appends exactly one entry with the given id, target,
\* position and loader at the end of the pending list, keeps the earlier
\* entries in place, calls no loader and leaves the lock flag alone.
C5_DelayLoadAppends ==
  [][ \A i \in Ids, o \in Objs, p \in Positions, l \in Loaders :
        DelayLoadCall(i, o, p, l) =>
          /\ Len(delayed_') = Len(delayed_) + 1
          /\ SubSeq(delayed_', 1, Len(delayed_)) = delayed_
          /\ delayed_'[Len(delayed_')].id = i
          /\ delayed_'[Len(delayed_')].obj = o
          /\ delayed_'[Len(delayed_')].pos = p
          /\ delayed_'[Len(delayed_')].loader = l
          /\ invoked' = invoked
          /\ locked_' = locked_
          /\ fault' = "none" ]_vars

\* Two pending entries, the second with a custom loader.
C5_Witness ==
  /\ Len(delayed_) >= 2
  /\ delayed_[1].loader = NullLoader
  /\ delayed_[2].loader = "custom"
  /\ delayed_[1].id # delayed_[2].id

\* The loader recorded for every invocation is the entry's custom loader if
\* it has one and the default loader otherwise; no entry is invoked twice.
InvokedOnce(log) ==
  /\ \A k \in DOMAIN log :
       log[k].fn = IF log[k].entry.loader = NullLoader
                     THEN "default" ELSE log[k].entry.loader
  /\ \A j, k \in DOMAIN log : log[j].entry = log[k].entry => j = k

InvokedCount(log, e) == Cardinality({k \in DOMAIN log : log[k].entry = e})

\* C6 (as claimed): when load_delayed () completes, the queue is empty and
\* every entry pending at the call and every entry queued while it was
\* processing has had its loader called exactly once.
C6_Original ==
  [][ GuardExit =>
        /\ delayed_' = << >>
        /\ InvokedOnce(invoked')
        /\ \A e \in Range(Top.start) : InvokedCount(invoked', e) = 1
        /\ \A e \in Range(delayed_) : InvokedCount(invoked', e) = 1 ]_vars

\* C6 (amended): when load_delayed () completes, the queue is empty and
\* every entry pending at the call has had its loader called exactly once;
\* the entries queued while it was processing that are still in the cache's
\* list are removed by the guard without their loader being called.
C6_DrainsPending ==
  [][ /\ InvokedOnce(invoked')
      /\ GuardExit =>
           /\ delayed_' = << >>
           /\ \A e \in Range(Top.start) : InvokedCount(invoked', e) = 1
           /\ \A e \in Range(delayed_) : InvokedCount(invoked', e) = 0 ]_vars

\* load_delayed_ () is about to return: two entries were pending at the
\* call, all are processed, and an entry queued meanwhile is still there.
C6_Witness ==
  /\ Running
  /\ stack # << >>
  /\ Top.kind = "swap_guard"
  /\ ~Top.active
  /\ Top.dls = << >>
  /\ Len(Top.start) >= 2
  /\ delayed_ # << >>

\* C7: of two entries pending at a load_delayed () call, the one queued
\* first by delay_load has its loader called first; none is skipped,
\* reordered or merged.
C7_FifoDrain ==
  \A f \in Frames :
    /\ stack[f].done \o stack[f].dls = stack[f].start
    /\ \A a, b \in DOMAIN stack[f].start :
         stack[f].start[a].call < stack[f].start[b].call =>
           \A k \in DOMAIN stack[f].done :
             stack[f].done[k] = stack[f].start[b] =>
               \E j \in 1..(k - 1) : stack[f].done[j] = stack[f].start[a]

\* A drain that has called two loaders, the default one and a custom one.
C7_Witness ==
  \E f \in Frames :
    /\ Len(stack[f].done) >= 2
    /\ stack[f].done[1].loader # stack[f].done[2].loader

\* C8: clear_delayed () empties the pending list whatever it held, calls no
\* loader, leaves the lock flag alone and never fails, locked or not.
C8_ClearDelayed ==
  [][ ClearDelayed =>
        /\ delayed_' = << >>
        /\ invoked' = invoked
        /\ locked_' = locked_
        /\ fault' = "none"
        /\ stack' = stack ]_vars

\* Pending entries on an unlocked cache, where clear_delayed () may be
\* called.
C8_Witness ==
  /\ UserCode
  /\ ~locked_
  /\ Len(delayed_) >= 2

\* C9 (as claimed): delay_load on an unlocked cache fails and leaves the
\* pending list unchanged.
C9_Original ==
  [][ \A i \in Ids, o \in Objs, p \in Positions, l \in Loaders :
        DelayLoadCall(i, o, p, l) /\ ~locked_ =>
          fault' = "assert" /\ delayed_' = delayed_ ]_vars

\* C10 (as claimed): when control is back at the top level the cache is
\* unlocked and the delayed-load queue is empty.
C10_Original == AtTopLevel => ~locked_ /\ delayed_ = << >>

\* C10 (amended): when control is back at the top level the cache is
\* unlocked; the delayed-load queue is empty unless an auto_lock::unlock ()
\* released the cache while entries were pending.
C10_ExitRestoration == AtTopLevel => ~locked_ /\ (delayed_ = << >> \/ released)

\* An exception has left load_delayed_ () after one loader ran; the guard
\* put the unprocessed entries back and the holding auto_lock is next.
C10_Witness ==
  /\ exc
  /\ fault = "none"
  /\ Len(stack) = 1
  /\ Top.kind = "auto_lock"
  /\ Top.held
  /\ delayed_ # << >>
  /\ invoked # << >>
  /\ ~released

\* The pointer of each statement kind.
StatementOf(k) ==
  CASE k = "persist" -> persist_
    [] k = "find" -> find_
    [] k = "update" -> update_
    [] k = "erase" -> erase_
    [] k = "optimistic_erase" -> od_erase_

\* C12: however often an accessor is called, the statement of its kind is
\* constructed exactly once, on the first call, and every call returns that
\* instance; a call never constructs or replaces a statement of another
\* kind.
C12_LazySingleton ==
  /\ [](\A k \in Kinds :
         /\ constructed[k] = IF accessed[k] = 0 THEN 0 ELSE 1
         /\ StatementOf(k) = constructed[k]
         /\ returned.kind = k => returned.stmt = 1)
  /\ [][ \A k \in Kinds :
           accessed'[k] = accessed[k] =>
             /\ StatementOf(k)' = StatementOf(k)
             /\ constructed'[k] = constructed[k] ]_vars

\* update_statement () was called twice, erase_statement () never.
C12_Witness ==
  /\ accessed["update"] = 2
  /\ accessed["persist"] = 1
  /\ accessed["erase"] = 0
  /\ returned = [kind |-> "update", stmt |-> 1]
  /\ erase_ = 0

\* C13: the sub-cache is allocated by the first get () and not before;
\* later calls return it without allocating; the destruction of the owner
\* deletes it exactly once if it was allocated and deletes nothing (and
\* calls no deleter) otherwise.
C13_ContainerCache ==
  /\ allocated = IF accessed["container"] = 0 THEN 0 ELSE 1
  /\ alive => p_ = allocated
  /\ returned.kind = "container" => returned.stmt = 1
  /\ p_ # 0 => deleter_ = "allocate"
  /\ deleted = IF alive THEN 0 ELSE allocated

\* The owner was destroyed after two calls of get ().
C13_Witness ==
  /\ ~alive
  /\ accessed["container"] = 2
  /\ deleted = 1

\* The six getters applied to the version members m.
Getters(m) ==
  <<insert_image_version(m), update_image_version(m),
    update_id_image_version(m), select_image_version(m),
    id_image_version(m), optimistic_id_image_version(m)>>

\* The setter call with argument v is call number k of the six.
SetterCall(k, v) ==
  CASE k = 1 -> InsertImageVersion(v)
    [] k = 2 -> UpdateImageVersion(v)
    [] k = 3 -> UpdateIdImageVersion(v)
    [] k = 4 -> SelectImageVersion(v)
    [] k = 5 -> IdImageVersion(v)
    [] k = 6 -> OptimisticIdImageVersion(v)

\* C14 (as claimed): over any sequence of setter calls the value each
\* getter returns never decreases.
C14_Original ==
  [][ \A k \in 1..6 :
        Getters(ImageVersions')[k] >= Getters(ImageVersions)[k] ]_vars

\* C14 (amended): a setter stores the value it is given, smaller or not,
\* and leaves the other five versions alone; the matching getter then
\* returns that value, so it decreases exactly when a caller passes a
\* smaller value.
C14_SetterStores ==
  [][ \A k \in 1..6, v \in VersionValues :
        SetterCall(k, v) =>
          /\ Getters(ImageVersions')[k] = v
          /\ \A j \in 1..6 \ {k} :
               Getters(ImageVersions')[j] = Getters(ImageVersions)[j] ]_vars

\* The two versions of the update binding differ.
C14_Witness ==
  /\ update_id_image_version(ImageVersions) = 2
  /\ update_image_version(ImageVersions) = 1
  /\ optimistic_id_image_version(ImageVersions) = 0

\* C15: for every mapped type select = total, insert = total - inverse -
\* managed_optimistic and update = insert - id - readonly; total 10,
\* inverse 2, managed_optimistic 1, id 1, readonly 1 give insert 7 and
\* update 5.
C15_ColumnCounts ==
  columns.instantiated =>
    /\ columns.select_column_count = traits.column_count
    /\ columns.insert_column_count + traits.inverse_column_count +
       traits.managed_optimistic_column_count = traits.column_count
    /\ columns.update_column_count + traits.id_column_count +
       traits.readonly_column_count = columns.insert_column_count
    /\ traits = ExampleTraits =>
         /\ columns.insert_column_count = 7
         /\ columns.update_column_count = 5

\* The mapped type of the example, instantiated.
C15_Witness ==
  /\ columns.instantiated
  /\ traits = ExampleTraits
  /\ columns.insert_column_count = 7
  /\ columns.update_column_count = 5

\* Every entry the cache knows: pending, in a working list, or loaded.
Entries(d, st, log) ==
  Range(d) \cup UNION {Range(st[f].dls) : f \in DOMAIN st}
           \cup {log[k].entry : k \in DOMAIN log}

\* C11: a request to load an object while the cache is locked gets an
\* auto_lock that does not hold the lock and runs no loader; the entry
\* queued for it keeps the id, target and position supplied to delay_load
\* until its loader runs, and a loader runs only in a load_delayed () of
\* the locked cache, for an entry that was pending at that call.
C11_RecursiveLoad ==
  [][ /\ (AutoLockCtor /\ locked_ =>
            /\ ~Top'.held
            /\ locked_'
            /\ delayed_' = delayed_
            /\ invoked' = invoked)
      /\ \A r \in Requests :
           DelayLoadCall(r[1], r[2], r[3], r[4]) =>
             /\ invoked' = invoked
             /\ LET e == delayed_'[Len(delayed_')] IN
                  <<e.id, e.obj, e.pos, e.loader>> = r
      /\ \A e \in Entries(delayed_, stack, invoked),
            e2 \in Entries(delayed_', stack', invoked') :
           e.call = e2.call => e = e2
      /\ (invoked' # invoked =>
            /\ locked_
            /\ Holders # {}
            /\ stack # << >>
            /\ Top.kind = "swap_guard"
            /\ Top.dls # << >>
            /\ Head(Top.dls) \in Range(Top.start)
            /\ invoked' = Append(invoked, [entry |-> Head(Top.dls),
                                           fn |-> loader_of(Head(Top.dls))]))
    ]_vars

\* The top-level load holds the lock and drains the queue; the loader of
\* the second request is running with the arguments it was queued with.
C11_Witness ==
  /\ Len(stack) >= 2
  /\ 1 \in Holders
  /\ stack[2].kind = "swap_guard"
  /\ stack[2].active
  /\ stack[2].done # << >>
  /\ LET e == stack[2].done[Len(stack[2].done)] IN
       <<e.id, e.obj, e.pos, e.loader>> = <<"id2", "obj2", "pos2", "custom">>
  /\ locked_

\* C16: load_delayed () on an unlocked cache fails its assert before any
\* entry is processed, whether or not entries are pending; on a locked
\* cache with no pending entry it does nothing.
C16_LoadDelayedLocked ==
  [][ LoadDelayed =>
        /\ ~locked_ =>
             /\ fault' = "assert"
             /\ delayed_' = delayed_
             /\ invoked' = invoked
             /\ stack' = stack
        /\ locked_ /\ delayed_ = << >> => UNCHANGED vars
        /\ locked_ => fault' = "none" /\ invoked' = invoked ]_vars

\* The assert has failed on an unlocked cache with pending entries, none
\* of which was loaded.
C16_Witness ==
  /\ fault = "assert"
  /\ ~locked_
  /\ Len(delayed_) >= 2
  /\ invoked = << >>
  /\ stack = << >>

\* C17: while a load_delayed_ () processes its working list, the cache's
\* own list holds only entries queued after that processing began, and no
\* entry is added to the working list: it only shrinks from the front.
C17_DrainGuardIsolation ==
  \A f \in Frames :
    /\ \A e \in Range(delayed_), e0 \in Range(stack[f].start) :
         e.call > e0.call
    /\ \E n \in 0..Len(stack[f].start) :
         stack[f].dls = SubSeq(stack[f].start, n + 1, Len(stack[f].start))

\* A delay_load was made while the working list still has an entry to
\* process.
C17_Witness ==
  \E f \in Frames :
    /\ stack[f].active
    /\ stack[f].dls # << >>
    /\ delayed_ # << >>

\* A step that destroys the swap_guard of the innermost load_delayed_ ().
GuardDestroyed ==
  /\ stack # << >>
  /\ Top.kind = "swap_guard"
  /\ GuardExit \/ Unwind

\* C19: when the drain guard is destroyed, the entries still in the cache's
\* list are dropped without their loaders running and the cache's list
\* becomes the working list as it is then: the unprocessed entries after an
\* exception, empty only when the working list was consumed.
C19_GuardOnExit ==
  [][ GuardDestroyed =>
        /\ delayed_' = Top.dls
        /\ invoked' = invoked
        /\ stack' = Pop
        /\ fault' = "none" ]_vars

\* An exception is leaving load_delayed_ () with an unprocessed entry in
\* the working list and an entry queued meanwhile in the cache's list.
C19_Witness ==
  /\ exc
  /\ fault = "none"
  /\ stack # << >>
  /\ Top.kind = "swap_guard"
  /\ Top.dls # << >>
  /\ delayed_ # << >>

\* C20: auto_lock::unlock () on an auto_lock that holds the lock unlocks the
\* cache, makes the auto_lock report false and leaves the queue alone; the
\* later destruction of that auto_lock changes neither the flag nor the
\* queue and does not fail; unlock () on an auto_lock that does not hold
\* the lock fails its assert.
C20_ExplicitRelease ==
  [][ /\ \A i \in DOMAIN stack :
           AutoLockUnlock(i) =>
             IF stack[i].held /\ locked_
               THEN /\ fault' = "none"
                    /\ ~locked_'
                    /\ ~stack'[i].held
                    /\ delayed_' = delayed_
                    /\ invoked' = invoked
               ELSE /\ fault' = "assert"
                    /\ UNCHANGED <<locked_, delayed_, stack>>
      /\ (AutoLockDestroyed /\ ~Top.held =>
            /\ fault' = "none"
            /\ UNCHANGED <<locked_, delayed_, invoked>>) ]_vars

\* An auto_lock that released the lock explicitly is still alive, with
\* delayed loads pending on the unlocked cache.
C20_Witness ==
  /\ fault = "none"
  /\ released
  /\ stack # << >>
  /\ Top.kind = "auto_lock"
  /\ ~Top.held
  /\ ~locked_
  /\ delayed_ # << >>

\* A step that destroys the innermost auto_unlock (scope exit or unwinding).
AutoUnlockDestroyed ==
  /\ stack # << >>
  /\ Top.kind = "auto_unlock"
  /\ AutoUnlockDtor \/ Unwind

\* C18: an auto_unlock constructed on a locked cache unlocks it and its
\* destruction, on normal exit or during unwinding, locks it again;
\* constructed on an unlocked cache it fails the assert of unlock (), and
\* destroyed while the cache is locked it fails the assert of lock ().
C18_AutoUnlock ==
  [][ /\ (AutoUnlockCtor /\ locked_ =>
            /\ fault' = "none"
            /\ ~locked_'
            /\ stack' = Append(stack, AutoUnlock))
      /\ (AutoUnlockCtor /\ ~locked_ =>
            /\ fault' = "assert"
            /\ UNCHANGED <<locked_, stack>>)
      /\ (AutoUnlockDestroyed /\ ~locked_ =>
            /\ fault' = "none"
            /\ locked_'
            /\ stack' = Pop)
      /\ (AutoUnlockDestroyed /\ locked_ =>
            /\ fault' = "assert"
            /\ UNCHANGED <<locked_, stack>>) ]_vars

\* An exception unwinds through an auto_unlock whose cache is still
\* unlocked, below an auto_lock that holds the lock.
C18_Witness ==
  /\ exc
  /\ fault = "none"
  /\ Len(stack) = 2
  /\ 1 \in Holders
  /\ Top.kind = "auto_unlock"
  /\ ~locked_

====
